---- MODULE Spec2Model ----
(***************************************************************************)
(* A model of BlueprintAnalysis.py: the two classes BlueprintOrderAnalysis *)
(* and InventoryOptimization.  Every method is a synchronous function of   *)
(* the data frames it is handed; the state is the frames a caller holds,   *)
(* the call it made and what the call returned (a value or an exception).  *)
(*                                                                         *)
(* Floating-point values are modelled exactly: a finite number is          *)
(*     q + sqrt(r) + sqrt(r2)                                              *)
(* with q, r, r2 rationals (pairs <<numerator, denominator>>), and the two *)
(* IEEE specials NaN and inf are kinds of their own, with the arithmetic   *)
(* and comparison rules numpy applies to them (no exception is raised by   *)
(* numpy.float64 arithmetic; every comparison with NaN is False).          *)
(***************************************************************************)
EXTENDS Integers, Sequences, FiniteSets, TLC

VARIABLES orders_df,          \* the order frame: a sequence of rows, each with its index label
          inventory_data,     \* the inventory frame: product -> record
          sales_history,      \* the sales-history frame: a sequence of rows
          historical_orders,  \* the frame handed to forecast_demand
          subscription_data,  \* the frame handed to analyze_subscription_patterns
          call,               \* the call made: [op |-> name, ...arguments]
          result              \* what it returned: [status |-> "ok", value |-> ...] or an exception

vars == <<orders_df, inventory_data, sales_history, historical_orders, subscription_data,
          call, result>>

NoCall == [op |-> "none"]
NoResult == [status |-> "none"]
Ok(v) == [status |-> "ok", value |-> v]
Raise(e) == [status |-> "error", error |-> e]

(***************************************************************************)
(* Rationals                                                               *)
(***************************************************************************)
Abs(x) == IF x < 0 THEN -x ELSE x

RECURSIVE Gcd(_, _)
Gcd(a, b) == IF b = 0 THEN a ELSE Gcd(b, a % b)

\* n/d in lowest terms, d > 0
RNorm(n, d) ==
    LET g == Gcd(Abs(n), Abs(d))
        s == IF d < 0 THEN -1 ELSE 1
    IN  <<(s * n) \div g, (s * d) \div g>>

RInt(i) == <<i, 1>>
RAdd(a, b) == RNorm(a[1] * b[2] + b[1] * a[2], a[2] * b[2])
RSub(a, b) == RNorm(a[1] * b[2] - b[1] * a[2], a[2] * b[2])
RMul(a, b) == RNorm(a[1] * b[1], a[2] * b[2])
RDiv(a, b) == RNorm(a[1] * b[2], a[2] * b[1])    \* b # 0
RLeq(a, b) == a[1] * b[2] <= b[1] * a[2]
RZero == <<0, 1>>
RIsZero(a) == a[1] = 0

(***************************************************************************)
(* numpy.float64 values                                                    *)
(***************************************************************************)
NaN == [k |-> "nan", q |-> RZero, r |-> RZero, r2 |-> RZero]
Inf == [k |-> "inf", q |-> RZero, r |-> RZero, r2 |-> RZero]
Rat(a) == [k |-> "num", q |-> a, r |-> RZero, r2 |-> RZero]
Surd(a) == [k |-> "num", q |-> RZero, r |-> a, r2 |-> RZero]
Num(i) == Rat(RInt(i))

IsNaN(x) == x.k = "nan"
IsInf(x) == x.k = "inf"
IsFinite(x) == x.k = "num"
IsRat(x) == x.k = "num" /\ RIsZero(x.r) /\ RIsZero(x.r2)
IsZeroNum(x) == x.k = "num" /\ RIsZero(x.q) /\ RIsZero(x.r) /\ RIsZero(x.r2)

\* x * c for a rational c >= 0 (inf * 0 is NaN)
FScale(x, c) ==
    CASE IsNaN(x) -> NaN
      [] IsInf(x) -> IF RIsZero(c) THEN NaN ELSE Inf
      [] OTHER -> [k |-> "num", q |-> RMul(x.q, c), r |-> RMul(x.r, RMul(c, c)),
                   r2 |-> RMul(x.r2, RMul(c, c))]

\* x * sqrt(c) for a rational x and a rational c >= 0
FMulSqrt(x, c) ==
    CASE IsNaN(x) -> NaN
      [] IsInf(x) -> IF RIsZero(c) THEN NaN ELSE Inf
      [] OTHER -> [k |-> "num", q |-> RZero, r |-> RMul(x.r, c), r2 |-> RMul(x.r2, c)]

\* a rational plus a surd, or a surd plus a surd
FAdd(x, y) ==
    CASE IsNaN(x) \/ IsNaN(y) -> NaN
      [] IsInf(x) \/ IsInf(y) -> Inf
      [] RIsZero(x.r) -> [k |-> "num", q |-> RAdd(x.q, y.q), r |-> y.r, r2 |-> y.r2]
      [] RIsZero(y.r) -> [k |-> "num", q |-> RAdd(x.q, y.q), r |-> x.r, r2 |-> x.r2]
      [] OTHER -> [k |-> "num", q |-> RAdd(x.q, y.q), r |-> x.r, r2 |-> y.r]

\* n / m for rationals n >= 0, m >= 0 as numpy.float64 divides: x/0 is inf, 0/0 is NaN
FDivRat(n, m) ==
    IF RIsZero(m) THEN (IF RIsZero(n) THEN NaN ELSE Inf) ELSE Rat(RDiv(n, m))

\* np.sqrt of a rational, inf or NaN
FSqrt(x) ==
    CASE IsNaN(x) -> NaN
      [] IsInf(x) -> Inf
      [] OTHER -> Surd(x.q)

\* d / x for a rational d >= 0 and x = sqrt(r), inf or NaN
FDivBySurd(d, x) ==
    CASE IsNaN(x) -> NaN
      [] IsInf(x) -> Rat(RZero)
      [] RIsZero(x.r) -> IF RIsZero(d) THEN NaN ELSE Inf
      [] OTHER -> Surd(RDiv(RMul(d, d), x.r))

\* a <= x for a rational a and x = q + sqrt(r); False when x is NaN
FLeq(a, x) ==
    CASE IsNaN(x) -> FALSE
      [] IsInf(x) -> TRUE
      [] OTHER -> LET diff == RSub(a, x.q)
                  IN  RLeq(diff, RZero) \/ RLeq(RMul(diff, diff), x.r)

RECURSIVE SumSeq(_)
SumSeq(s) == IF s = <<>> THEN 0 ELSE Head(s) + SumSeq(Tail(s))

RECURSIVE SumSq(_)
SumSq(s) == IF s = <<>> THEN 0 ELSE Head(s) * Head(s) + SumSq(Tail(s))

\* Series.mean(): NaN on an empty series
Mean(s) == IF Len(s) = 0 THEN NaN ELSE Rat(RNorm(SumSeq(s), Len(s)))

\* Series.std() (ddof = 1): NaN with fewer than two values
Std(s) ==
    LET n == Len(s)
    IN  IF n < 2 THEN NaN
        ELSE Surd(RNorm(n * SumSq(s) - SumSeq(s) * SumSeq(s), n * (n - 1)))

(***************************************************************************)
(* class BlueprintOrderAnalysis                                            *)
(***************************************************************************)
Customers == {"c1", "c2"}
\* a missing customer_id (NaN / None)
MissingCustomer == "NaN"

\* timestamps are hours since Monday 00:00
Hour(timestamp) == timestamp % 24
DayOfWeek(timestamp) == (timestamp \div 24) % 7

Positions(df) == 1..Len(df)

\* the elements of P in ascending order of key[_], a pair <<major, minor>>
RECURSIVE SortedBy(_, _)
SortedBy(P, key) ==
    IF P = {} THEN <<>>
    ELSE LET first == CHOOSE i \in P : \A j \in P :
                          \/ key[i][1] < key[j][1]
                          \/ (key[i][1] = key[j][1] /\ key[i][2] <= key[j][2])
         IN  <<first>> \o SortedBy(P \ {first}, key)

\* CustomerHistory without the grouping: every key gets the aggregates of the whole frame
CustomerHistoryUngrouped(df) ==
    LET keys == {df[i].customer_id : i \in Positions(df)} \ {MissingCustomer}
        amounts == [i \in 1..Len(df) |-> df[i].total_amount]
    IN  [c \in keys |-> [order_id |-> Len(df), total_amount |-> Mean(amounts)]]

\* orders_df.groupby('customer_id').agg({'order_id': 'count', 'total_amount': 'mean'}):
\* groupby drops the rows whose key is missing
CustomerHistory(df) ==
    LET keys == {df[i].customer_id : i \in Positions(df)} \ {MissingCustomer}
        rows(c) == SelectSeq(df, LAMBDA row : row.customer_id = c)
        amounts(c) == [i \in 1..Len(rows(c)) |-> rows(c)[i].total_amount]
    IN  [c \in keys |-> [order_id |-> Len(rows(c)), total_amount |-> Mean(amounts(c))]]

\* the left positions an inner merge keeps, in the order it returns them: left order,
\* or grouped by key in order of the key's first appearance (pandas before 2.2)
MergePositions(left, right, order) ==
    LET kept == {i \in Positions(left) : left[i].customer_id \in DOMAIN right}
        FirstPos(c) == CHOOSE i \in kept : /\ left[i].customer_id = c
                                           /\ \A j \in kept : left[j].customer_id = c => i <= j
        LeftKey == [i \in kept |-> <<0, i>>]
        GroupKey == [i \in kept |-> <<FirstPos(left[i].customer_id), i>>]
    IN  IF order = "left" THEN SortedBy(kept, LeftKey) ELSE SortedBy(kept, GroupKey)

\* the merged frame carries a fresh RangeIndex
enrich_order_data(df, order) ==
    LET customer_history == CustomerHistory(df)
        kept == MergePositions(df, customer_history, order)
    IN  [k \in 1..Len(kept) |->
            LET row == df[kept[k]]
            IN  [index |-> k - 1,
                 order_id |-> row.order_id,
                 customer_id |-> row.customer_id,
                 products |-> row.products,
                 total_amount |-> row.total_amount,
                 timestamp |-> row.timestamp,
                 hour |-> Hour(row.timestamp),
                 day_of_week |-> DayOfWeek(row.timestamp),
                 order_id_history |-> customer_history[row.customer_id].order_id,
                 total_amount_history |-> customer_history[row.customer_id].total_amount]]

\* fit_predict labels every row -1 (anomaly) or 1; the forest is random, so any
\* labelling can come back
FraudLabels == {-1, 1}
detect_fraud(enriched, predictions) ==
    [k \in 1..Len(enriched) |-> [index |-> enriched[k].index, score |-> predictions[k]]]

\* product identifiers in sort order
Catalog == <<"a", "b", "c", "d", "e", "f">>
CatalogPos(product) == CHOOSE i \in 1..Len(Catalog) : Catalog[i] = product
\* nlargest(5, 'order_id')
high_demand_n == 5

\* explode('products'): one (order, product) pair per listed product
RECURSIVE Explode(_)
Explode(df) ==
    IF df = <<>> THEN <<>>
    ELSE [i \in 1..Len(Head(df).products) |-> Head(df).products[i]] \o Explode(Tail(df))

\* groupby('products').agg({'order_id': 'count'}).reset_index(): one row per
\* product, sorted by product
ProductDemand(df) ==
    LET pairs == Explode(df)
        keys == {pairs[i] : i \in 1..Len(pairs)}
        codes == {CatalogPos(product) : product \in keys}
        sorted == SortedBy(codes, [i \in codes |-> <<i, 0>>])
    IN  [k \in 1..Len(sorted) |->
            [products |-> Catalog[sorted[k]],
             order_id |-> Cardinality({i \in 1..Len(pairs) : pairs[i] = Catalog[sorted[k]]})]]

\* NLargest with keep='last': equal counts in reverse frame order
NLargestKeepLast(n, frame) ==
    LET ranked == SortedBy(1..Len(frame), [k \in 1..Len(frame) |-> <<-frame[k].order_id, -k>>])
        m == IF Len(frame) < n THEN Len(frame) ELSE n
    IN  [k \in 1..m |-> frame[ranked[k]]]

\* DataFrame.nlargest(n, 'order_id'), keep='first': descending count, equal counts
\* in frame order
NLargest(n, frame) ==
    LET ranked == SortedBy(1..Len(frame), [k \in 1..Len(frame) |-> <<-frame[k].order_id, k>>])
        m == IF Len(frame) < n THEN Len(frame) ELSE n
    IN  [k \in 1..m |-> frame[ranked[k]]]

analyze_inventory_impact(df) ==
    LET product_demand == ProductDemand(df)
        top == NLargest(high_demand_n, product_demand)
        counts == [k \in 1..Len(product_demand) |-> product_demand[k].order_id]
    IN  [high_demand_products |-> [k \in 1..Len(top) |-> top[k].products],
         total_product_demand |-> SumSeq(counts),
         demand_distribution |->
             [product \in {product_demand[k].products : k \in 1..Len(product_demand)} |->
                 product_demand[CHOOSE k \in 1..Len(product_demand) :
                                    product_demand[k].products = product].order_id]]

\* fit_predict needs at least one row (sklearn's check_array raises ValueError)
process_orders(df, order, predictions) ==
    LET enriched_orders == enrich_order_data(df, order)
    IN  IF Len(enriched_orders) = 0 THEN Raise("ValueError")
        ELSE Ok([fraud_detection |-> detect_fraud(enriched_orders, predictions),
                 inventory_impact |-> analyze_inventory_impact(enriched_orders)])

\* the per-(date, category) sums of one category, in date order:
\* groupby(['date', 'product_category'])['quantity'].sum() sorts by date
CategoryDemand(df, category) ==
    LET dates == {df[i].date : i \in {j \in 1..Len(df) : df[j].product_category = category}}
        sorted == SortedBy(dates, [d \in dates |-> <<d, 0>>])
        Quantity(d) ==
            LET rows == SelectSeq(df, LAMBDA row : row.product_category = category
                                                   /\ row.date = d)
            IN  SumSeq([i \in 1..Len(rows) |-> rows[i].quantity])
    IN  [k \in 1..Len(sorted) |-> Quantity(sorted[k])]

\* sum of x^a * y over the positions x = 0..n-1 of the series
RECURSIVE Moment(_, _, _)
Moment(y, a, weighted) ==
    IF y = <<>> THEN 0
    ELSE LET x == Len(y) - 1
             xa == IF a = 0 THEN 1 ELSE IF a = 1 THEN x ELSE x * x
         IN  xa * (IF weighted THEN y[Len(y)] ELSE 1)
             + Moment(SubSeq(y, 1, Len(y) - 1), a, weighted)

\* np.polyfit(range(n), y, 1): the least-squares line <<slope, intercept>>.  With a
\* single point the scaled Vandermonde matrix holds a NaN (0/0), and lstsq either
\* raises LinAlgError or returns NaN coefficients, depending on the LAPACK build.
polyfit(y, on_nan) ==
    LET n == Len(y)
        Sx == Moment(y, 1, FALSE)
        Sxx == Moment(y, 2, FALSE)
        Sy == Moment(y, 0, TRUE)
        Sxy == Moment(y, 1, TRUE)
        det == n * Sxx - Sx * Sx
    IN  IF n < 2
        THEN (IF on_nan = "raise" THEN Raise("LinAlgError") ELSE Ok(<<NaN, NaN>>))
        ELSE Ok(<<Rat(RNorm(n * Sxy - Sx * Sy, det)), Rat(RNorm(Sy * Sxx - Sx * Sxy, det))>>)

\* np.poly1d(trend)(x)
poly1d(trend, x) ==
    IF IsNaN(trend[1]) \/ IsNaN(trend[2]) THEN NaN
    ELSE Rat(RAdd(RMul(trend[1].q, RInt(x)), trend[2].q))

forecast_demand(historical, forecast_periods, on_nan) ==
    LET categories == {historical[i].product_category : i \in 1..Len(historical)}
        Trend(category) == polyfit(CategoryDemand(historical, category), on_nan)
    IN  IF \E category \in categories : Trend(category).status = "error"
        THEN Raise("LinAlgError")
        ELSE Ok([category \in categories |->
                    LET n == Len(CategoryDemand(historical, category))
                    IN  [k \in 1..forecast_periods |->
                            poly1d(Trend(category).value, n + k - 1)]])

\* the attributes an instance of BlueprintOrderAnalysis has
BlueprintOrderAnalysisAttributes ==
    {"fraud_detector", "process_orders", "forecast_demand", "analyze_subscription_patterns",
     "_enrich_order_data", "_detect_fraud", "_analyze_inventory_impact"}

\* the dict literal is evaluated entry by entry; looking up a method the class does
\* not define raises AttributeError
analyze_subscription_patterns(subscriptions) ==
    IF "_calculate_churn_risk" \notin BlueprintOrderAnalysisAttributes
       \/ "_analyze_subscription_health" \notin BlueprintOrderAnalysisAttributes
    THEN Raise("AttributeError")
    ELSE Ok([active_subscriptions |-> Len(subscriptions)])

(***************************************************************************)
(* class InventoryOptimization                                             *)
(***************************************************************************)
\* __init__ defaults: lead_time_days=14, safety_stock_factor=1.5
lead_time_days == 14
safety_stock_factor == <<3, 2>>
\* optimize_order_quantities default: carrying_cost_rate=0.2
default_carrying_cost_rate == <<1, 5>>

Products == {"A", "B"}
\* inventory_data.index, in frame order
ProductIndex == <<"A", "B">>

\* sales_history[sales_history['product'] == product]['quantity']
RECURSIVE ProductQuantities(_, _)
ProductQuantities(sh, product) ==
    IF sh = <<>> THEN <<>>
    ELSE IF Head(sh).product = product
         THEN <<Head(sh).quantity>> \o ProductQuantities(Tail(sh), product)
         ELSE ProductQuantities(Tail(sh), product)

ReorderEntry(sh, product) ==
    LET daily_demand == Mean(ProductQuantities(sh, product))
        demand_std == Std(ProductQuantities(sh, product))
        safety_stock == FMulSqrt(FScale(demand_std, safety_stock_factor),
                                 RInt(lead_time_days))
        reorder_point == FAdd(FScale(daily_demand, RInt(lead_time_days)), safety_stock)
    IN  [reorder_point |-> reorder_point,
         safety_stock |-> safety_stock,
         avg_daily_demand |-> daily_demand]

calculate_reorder_points(inv, sh) ==
    Ok([product \in DOMAIN inv |-> ReorderEntry(sh, product)])

calculate_total_cost(annual_demand, order_quantity, ordering_cost, unit_cost, rate) ==
    LET annual_orders == FDivBySurd(annual_demand, order_quantity)
        annual_ordering_cost == FScale(annual_orders, RInt(ordering_cost))
        avg_inventory == FScale(order_quantity, <<1, 2>>)
        annual_carrying_cost == FScale(FScale(avg_inventory, RInt(unit_cost)), rate)
    IN  FAdd(annual_ordering_cost, annual_carrying_cost)

\* sum(quantity) * (365 / len(sales_history)); len(sales_history) > 0
AnnualDemand(sh, product) ==
    RMul(RInt(SumSeq(ProductQuantities(sh, product))), RNorm(365, Len(sh)))

QuantityEntry(inv, sh, product, carrying_cost_rate) ==
    LET annual_demand == AnnualDemand(sh, product)
        ordering_cost == inv[product].ordering_cost
        unit_cost == inv[product].unit_cost
        eoq == FSqrt(FDivRat(RMul(RInt(2), RMul(annual_demand, RInt(ordering_cost))),
                             RMul(RInt(unit_cost), carrying_cost_rate)))
    IN  [eoq |-> eoq,
         annual_demand |-> Rat(annual_demand),
         total_annual_cost |-> calculate_total_cost(annual_demand, eoq, ordering_cost,
                                                    unit_cost, carrying_cost_rate)]

\* 365 / len(sales_history) divides two Python ints: an empty history raises
optimize_order_quantities(inv, sh, carrying_cost_rate) ==
    IF DOMAIN inv # {} /\ Len(sh) = 0
    THEN Raise("ZeroDivisionError")
    ELSE Ok([product \in DOMAIN inv |-> QuantityEntry(inv, sh, product, carrying_cost_rate)])

calculate_inventory_health(inv) ==
    LET RECURSIVE Value(_)
        Value(idx) == IF idx = <<>> THEN 0
                      ELSE inv[Head(idx)].quantity_on_hand * inv[Head(idx)].unit_cost
                           + Value(Tail(idx))
    IN  [total_inventory_value |-> Value(ProductIndex),
         stock_outs |-> Cardinality({p \in DOMAIN inv : inv[p].quantity_on_hand = 0}),
         overstock_items |->
             Cardinality({p \in DOMAIN inv :
                             inv[p].quantity_on_hand > inv[p].max_stock_level})]

\* Recommend with the two checks in the other order: REDUCE tested before REORDER
RecommendReduceFirst(inv, reorder_points, optimal_quantities, product) ==
    LET current_stock == inv[product].quantity_on_hand
        reorder_point == reorder_points[product].reorder_point
        optimal_qty == optimal_quantities[product].eoq
    IN  IF current_stock > inv[product].max_stock_level
        THEN <<[product |-> product, action |-> "REDUCE",
                quantity |-> Num(current_stock - inv[product].max_stock_level),
                urgency |-> "LOW"]>>
        ELSE IF FLeq(RInt(current_stock), reorder_point)
        THEN <<[product |-> product, action |-> "REORDER", quantity |-> optimal_qty,
                urgency |-> IF current_stock = 0 THEN "HIGH" ELSE "MEDIUM"]>>
        ELSE <<>>

\* the branch of the loop body taken for one product
Recommend(inv, reorder_points, optimal_quantities, product) ==
    LET current_stock == inv[product].quantity_on_hand
        reorder_point == reorder_points[product].reorder_point
        optimal_qty == optimal_quantities[product].eoq
    IN  IF FLeq(RInt(current_stock), reorder_point)
        THEN <<[product |-> product, action |-> "REORDER", quantity |-> optimal_qty,
                urgency |-> IF current_stock = 0 THEN "HIGH" ELSE "MEDIUM"]>>
        ELSE IF current_stock > inv[product].max_stock_level
        THEN <<[product |-> product, action |-> "REDUCE",
                quantity |-> Num(current_stock - inv[product].max_stock_level),
                urgency |-> "LOW"]>>
        ELSE <<>>

generate_recommendations(inv, reorder_points, optimal_quantities) ==
    LET RECURSIVE Loop(_)
        Loop(idx) == IF idx = <<>> THEN <<>>
                     ELSE Recommend(inv, reorder_points, optimal_quantities, Head(idx))
                          \o Loop(Tail(idx))
    IN  Loop(ProductIndex)

generate_inventory_report(inv, sh) ==
    LET reorder_points == calculate_reorder_points(inv, sh)
        optimal_quantities == optimize_order_quantities(inv, sh, default_carrying_cost_rate)
    IN  IF optimal_quantities.status = "error" THEN optimal_quantities
        ELSE Ok([inventory_optimization |->
                     [reorder_points |-> reorder_points.value,
                      optimal_quantities |-> optimal_quantities.value],
                 inventory_health |-> calculate_inventory_health(inv),
                 recommendations |->
                     generate_recommendations(inv, reorder_points.value,
                                              optimal_quantities.value)])

(***************************************************************************)
(* The frames an inventory caller can hold                                 *)
(***************************************************************************)
MaxSalesRows == 2
StockLevels == {0, 14, 22, 26}
UnitCosts == {0, 1}
OrderingCosts == {2}
MaxStockLevels == {1, 30}
Dates == {1, 2}
Quantities == {1, 2}
CarryingCostRates == {<<0, 1>>, default_carrying_cost_rate}

SeqsUpTo(S, n) == UNION {[1..m -> S] : m \in 0..n}

InventoryRecords ==
    [quantity_on_hand : StockLevels, unit_cost : UnitCosts,
     ordering_cost : OrderingCosts, max_stock_level : MaxStockLevels]
SalesRows == [product : Products, date : Dates, quantity : Quantities]

InitInventory ==
    /\ orders_df = <<>>
    /\ inventory_data \in [Products -> InventoryRecords]
    /\ sales_history \in SeqsUpTo(SalesRows, MaxSalesRows)
    \* one row per product and day
    /\ \A i, j \in 1..Len(sales_history) :
          (sales_history[i].product = sales_history[j].product
           /\ sales_history[i].date = sales_history[j].date) => i = j
    /\ historical_orders = <<>>
    /\ subscription_data = <<>>
    /\ call = NoCall
    /\ result = NoResult

Frames == <<orders_df, inventory_data, sales_history, historical_orders, subscription_data>>

CalculateReorderPoints ==
    /\ call = NoCall
    /\ call' = [op |-> "calculate_reorder_points"]
    /\ result' = calculate_reorder_points(inventory_data, sales_history)
    /\ UNCHANGED Frames

OptimizeOrderQuantities ==
    /\ call = NoCall
    /\ \E rate \in CarryingCostRates :
          /\ call' = [op |-> "optimize_order_quantities", carrying_cost_rate |-> rate]
          /\ result' = optimize_order_quantities(inventory_data, sales_history, rate)
    /\ UNCHANGED Frames

GenerateInventoryReport ==
    /\ call = NoCall
    /\ call' = [op |-> "generate_inventory_report"]
    /\ result' = generate_inventory_report(inventory_data, sales_history)
    /\ UNCHANGED Frames

NextInventory ==
    \/ CalculateReorderPoints
    \/ OptimizeOrderQuantities
    \/ GenerateInventoryReport

SpecInventory == InitInventory /\ [][NextInventory]_vars

(***************************************************************************)
(* The frames an order-analysis caller can hold                            *)
(***************************************************************************)
MaxOrders == 3
Amounts == {100, 200, 300}
\* the frame's index starts at 0 (a fresh RangeIndex) or later (a slice of a frame)
IndexOffsets == {0, 10}
\* order timestamps, seven hours apart
TimestampSeries == {<<30, 37, 44, 51, 58>>, <<101, 108, 115, 122, 129>>}
EnrichBaskets == {<<"b", "a">>}
ImpactBaskets == {<<>>, <<"f">>, <<"b", "a">>, <<"f", "e", "d", "c", "b", "a">>}
MergeOrders == {"left", "grouped"}

OrderFrame(rows, offset, timestamps) ==
    [i \in 1..Len(rows) |->
        [index |-> offset + i - 1,
         order_id |-> i,
         customer_id |-> rows[i].customer_id,
         products |-> rows[i].products,
         total_amount |-> rows[i].total_amount,
         timestamp |-> timestamps[i]]]

OrderFrames(customers, amounts, baskets) ==
    {OrderFrame(rows, offset, timestamps) :
        rows \in SeqsUpTo([customer_id : customers, total_amount : amounts,
                           products : baskets], MaxOrders),
        offset \in IndexOffsets, timestamps \in TimestampSeries}

InitOrders ==
    /\ orders_df \in OrderFrames(Customers \cup {MissingCustomer}, Amounts, EnrichBaskets)
    /\ inventory_data = <<>>
    /\ sales_history = <<>>
    /\ historical_orders = <<>>
    /\ subscription_data = <<>>
    /\ call = NoCall
    /\ result = NoResult

InitImpact ==
    /\ orders_df \in OrderFrames({"c1"}, {100}, ImpactBaskets)
    /\ inventory_data = <<>>
    /\ sales_history = <<>>
    /\ historical_orders = <<>>
    /\ subscription_data = <<>>
    /\ call = NoCall
    /\ result = NoResult

EnrichOrderData ==
    /\ call = NoCall
    /\ \E order \in MergeOrders :
          /\ call' = [op |-> "_enrich_order_data"]
          /\ result' = Ok(enrich_order_data(orders_df, order))
    /\ UNCHANGED Frames

ProcessOrders ==
    /\ call = NoCall
    /\ \E order \in MergeOrders :
          \E predictions \in [1..Len(enrich_order_data(orders_df, order)) -> FraudLabels] :
             /\ call' = [op |-> "process_orders"]
             /\ result' = process_orders(orders_df, order, predictions)
    /\ UNCHANGED Frames

AnalyzeInventoryImpact ==
    /\ call = NoCall
    /\ call' = [op |-> "_analyze_inventory_impact"]
    /\ result' = Ok(analyze_inventory_impact(orders_df))
    /\ UNCHANGED Frames

NextOrders ==
    \/ EnrichOrderData
    \/ ProcessOrders

SpecOrders == InitOrders /\ [][NextOrders]_vars

NextImpact ==
    \/ AnalyzeInventoryImpact
    \/ ProcessOrders

SpecImpact == InitImpact /\ [][NextImpact]_vars

(***************************************************************************)
(* The frames a forecasting or subscription caller can hold                *)
(***************************************************************************)
MaxHistoryRows == 3
MaxForecastPeriods == 2
MaxSubscriptions == 4
Categories == {"x", "y"}
\* calendar dates with a gap
ForecastDates == {1, 2, 4}
ForecastQuantities == {10, 20, 30}
Plans == {"basic", "plus", "pro"}
LstsqOnNaN == {"raise", "nan"}

InitForecast ==
    /\ orders_df = <<>>
    /\ inventory_data = <<>>
    /\ sales_history = <<>>
    /\ historical_orders \in
           SeqsUpTo([date : ForecastDates, product_category : Categories,
                     quantity : ForecastQuantities], MaxHistoryRows)
    /\ subscription_data = <<>>
    /\ call = NoCall
    /\ result = NoResult

ForecastDemand ==
    /\ call = NoCall
    /\ \E forecast_periods \in 0..MaxForecastPeriods, on_nan \in LstsqOnNaN :
          /\ call' = [op |-> "forecast_demand", forecast_periods |-> forecast_periods]
          /\ result' = forecast_demand(historical_orders, forecast_periods, on_nan)
    /\ UNCHANGED Frames

NextForecast == ForecastDemand

SpecForecast == InitForecast /\ [][NextForecast]_vars

InitSubscriptions ==
    /\ orders_df = <<>>
    /\ inventory_data = <<>>
    /\ sales_history = <<>>
    /\ historical_orders = <<>>
    /\ subscription_data \in SeqsUpTo([plan : Plans], MaxSubscriptions)
    /\ call = NoCall
    /\ result = NoResult

AnalyzeSubscriptionPatterns ==
    /\ call = NoCall
    /\ call' = [op |-> "analyze_subscription_patterns"]
    /\ result' = analyze_subscription_patterns(subscription_data)
    /\ UNCHANGED Frames

NextSubscriptions == AnalyzeSubscriptionPatterns

SpecSubscriptions == InitSubscriptions /\ [][NextSubscriptions]_vars

(***************************************************************************)
(* Properties of InventoryOptimization                                     *)
(***************************************************************************)
ReportReturned == call.op = "generate_inventory_report" /\ result.status = "ok"
RecommendationsOf(product) ==
    SelectSeq(result.value.recommendations, LAMBDA rec : rec.product = product)
ReportedReorderPoint(product) ==
    result.value.inventory_optimization.reorder_points[product].reorder_point
ReportedEoq(product) ==
    result.value.inventory_optimization.optimal_quantities[product].eoq

\* C1: in a returned report every product has at most one recommendation: REORDER
\* (quantity = its eoq, urgency HIGH at zero stock, else MEDIUM) when
\* quantity_on_hand <= reorder_point; otherwise REDUCE (quantity = stock minus
\* max_stock_level, urgency LOW) when quantity_on_hand > max_stock_level; otherwise
\* none.  REORDER wins when both conditions hold.
C1_RecommendationDecision ==
    ReportReturned =>
        \A product \in Products :
            LET stock == inventory_data[product].quantity_on_hand
                max_level == inventory_data[product].max_stock_level
                recs == RecommendationsOf(product)
            IN  /\ Len(recs) <= 1
                /\ IF FLeq(RInt(stock), ReportedReorderPoint(product))
                   THEN recs = <<[product |-> product, action |-> "REORDER",
                                  quantity |-> ReportedEoq(product),
                                  urgency |-> IF stock = 0 THEN "HIGH" ELSE "MEDIUM"]>>
                   ELSE IF stock > max_level
                   THEN recs = <<[product |-> product, action |-> "REDUCE",
                                  quantity |-> Num(stock - max_level),
                                  urgency |-> "LOW"]>>
                   ELSE recs = <<>>

\* a report in which one product meets both conditions and is told to REORDER at
\* MEDIUM urgency, against a reorder point with a non-zero safety stock, while the
\* other product is told to REDUCE
C1_Witness ==
    /\ ReportReturned
    /\ \E p, o \in Products :
          /\ p # o
          /\ inventory_data[p].quantity_on_hand > inventory_data[p].max_stock_level
          /\ ~RIsZero(ReportedReorderPoint(p).r)
          /\ RecommendationsOf(p) # <<>>
          /\ RecommendationsOf(p)[1].action = "REORDER"
          /\ RecommendationsOf(p)[1].urgency = "MEDIUM"
          /\ RecommendationsOf(o) # <<>>
          /\ RecommendationsOf(o)[1].action = "REDUCE"

MinOf(S) == CHOOSE x \in S : \A y \in S : x <= y
MaxOf(S) == CHOOSE x \in S : \A y \in S : y <= x
\* the length in days of the window the history covers
HistoryWindowDays(sh) ==
    LET dates == {sh[i].date : i \in 1..Len(sh)}
    IN  MaxOf(dates) - MinOf(dates) + 1

\* C4: annual_demand is the product's total quantity times 365 over the length of
\* the history window in days, so it depends on the product's own rows and the
\* window only, not on the rows of other products.
C4_AnnualDemandPerWindowDay ==
    (call.op = "optimize_order_quantities" /\ result.status = "ok" /\ sales_history # <<>>) =>
        \A product \in Products :
            result.value[product].annual_demand =
                Rat(RNorm(SumSeq(ProductQuantities(sales_history, product)) * 365,
                          HistoryWindowDays(sales_history)))

\* C8: a zero unit_cost or a zero carrying_cost_rate ends the call in an error, and
\* no entry with an undefined or infinite eoq or total_annual_cost is returned.
C8_ZeroCostRejected ==
    (/\ call.op = "optimize_order_quantities"
     /\ \/ RIsZero(call.carrying_cost_rate)
        \/ \E product \in Products : inventory_data[product].unit_cost = 0) =>
        /\ result.status = "error"
        /\ ~(/\ result.status = "ok"
             /\ \E product \in Products :
                   \/ ~IsFinite(result.value[product].eoq)
                   \/ ~IsFinite(result.value[product].total_annual_cost))

\* C9: a product with exactly one sales-history row gets a defined safety_stock
\* (zero) and a defined reorder_point (avg_daily_demand x lead_time_days).
C9_SingleRowFallback ==
    (call.op = "calculate_reorder_points" /\ result.status = "ok") =>
        \A product \in Products :
            Len(ProductQuantities(sales_history, product)) = 1 =>
                /\ IsZeroNum(result.value[product].safety_stock)
                /\ result.value[product].reorder_point =
                       FScale(result.value[product].avg_daily_demand, RInt(lead_time_days))
                /\ IsFinite(result.value[product].reorder_point)

\* C10: in every returned report the products recommended at urgency HIGH are
\* exactly the products with quantity_on_hand = 0, as many as stock_outs counts.
C10_HighIffStockOut ==
    ReportReturned =>
        LET recs == result.value.recommendations
            high == {recs[i].product : i \in {j \in 1..Len(recs) : recs[j].urgency = "HIGH"}}
        IN  /\ high = {p \in Products : inventory_data[p].quantity_on_hand = 0}
            /\ Cardinality(high) = result.value.inventory_health.stock_outs

(***************************************************************************)
(* Properties of BlueprintOrderAnalysis                                    *)
(***************************************************************************)
EnrichReturned == call.op = "_enrich_order_data" /\ result.status = "ok"

\* C2: process_orders on N >= 1 orders returns N fraud scores, the k-th carrying the
\* index label of the k-th input order; enrichment returns one row per input order,
\* in input order, missing customer_id or not.
C2_ScoresAlignedWithOrders ==
    /\ (call.op = "process_orders" /\ Len(orders_df) >= 1) =>
          /\ result.status = "ok"
          /\ Len(result.value.fraud_detection) = Len(orders_df)
          /\ \A k \in 1..Len(orders_df) :
                result.value.fraud_detection[k].index = orders_df[k].index
    /\ EnrichReturned =>
          /\ Len(result.value) = Len(orders_df)
          /\ \A k \in 1..Len(orders_df) : result.value[k].order_id = orders_df[k].order_id

RECURSIVE SumAmounts(_, _)
SumAmounts(df, P) ==
    IF P = {} THEN 0
    ELSE LET i == CHOOSE j \in P : TRUE
         IN  df[i].total_amount + SumAmounts(df, P \ {i})

\* C3: every enriched row carries its customer's history: order_id_history is the
\* number of input orders of that customer and total_amount_history is the mean
\* total_amount over them.
C3_CustomerHistoryOnEveryRow ==
    EnrichReturned =>
        \A k \in 1..Len(result.value) :
            LET row == result.value[k]
                mine == {i \in Positions(orders_df) :
                            orders_df[i].customer_id = row.customer_id}
            IN  /\ row.order_id_history = Cardinality(mine)
                /\ IsRat(row.total_amount_history)
                /\ row.total_amount_history.q[1] * Cardinality(mine) =
                       SumAmounts(orders_df, mine) * row.total_amount_history.q[2]

\* the three orders 100, 200, 300 of one customer, each enriched with count 3 and
\* mean 200
C3_Witness ==
    /\ EnrichReturned
    /\ Len(result.value) = 3
    /\ {result.value[k].total_amount : k \in 1..3} = {100, 200, 300}
    /\ \A k \in 1..3 : /\ result.value[k].customer_id = "c1"
                       /\ result.value[k].order_id_history = 3
                       /\ result.value[k].total_amount_history = Num(200)

\* C5: analyze_subscription_patterns returns, for any subscription set, a mapping
\* whose active_subscriptions is the number of records; it never ends in an error.
C5_SubscriptionSummaryReturned ==
    call.op = "analyze_subscription_patterns" =>
        /\ result.status = "ok"
        /\ result.value.active_subscriptions = Len(subscription_data)

IsLinearSeries(y) == \A i \in 2..Len(y) : y[i] - y[i - 1] = y[2] - y[1]

\* C6: forecast_demand returns for every category of the history exactly
\* forecast_periods predicted quantities, and for a series that is exactly linear
\* over the positions 0..n-1 the k-th of them is that line at position n+k.
C6_ForecastContinuesLine ==
    call.op = "forecast_demand" =>
        /\ result.status = "ok"
        /\ DOMAIN result.value =
               {historical_orders[i].product_category : i \in 1..Len(historical_orders)}
        /\ \A category \in DOMAIN result.value :
              LET y == CategoryDemand(historical_orders, category)
                  n == Len(y)
                  forecast == result.value[category]
              IN  /\ Len(forecast) = call.forecast_periods
                  /\ \A k \in 1..Len(forecast) : IsFinite(forecast[k])
                  /\ (n >= 2 /\ IsLinearSeries(y)) =>
                        \A k \in 1..Len(forecast) :
                            forecast[k] = Num(y[1] + (y[2] - y[1]) * (n + k - 1))

ImpactReturned ==
    \/ call.op = "_analyze_inventory_impact"
    \/ call.op = "process_orders" /\ result.status = "ok"
Impact == IF call.op = "process_orders" THEN result.value.inventory_impact ELSE result.value
TopProducts == Impact.high_demand_products
\* the (order, product) pairs of the input orders
Touches == {ij \in Positions(orders_df) \X (1..Len(Catalog)) :
               ij[2] <= Len(orders_df[ij[1]].products)}
Touched == {orders_df[ij[1]].products[ij[2]] : ij \in Touches}
OrderCount(product) ==
    Cardinality({ij \in Touches : orders_df[ij[1]].products[ij[2]] = product})
\* p first occurs before q in the input orders
OccursFirst(p, q) ==
    \E ij \in Touches :
        /\ orders_df[ij[1]].products[ij[2]] = p
        /\ \A uv \in Touches :
              orders_df[uv[1]].products[uv[2]] = q =>
                  (ij[1] < uv[1] \/ (ij[1] = uv[1] /\ ij[2] < uv[2]))

TopFiveByCount ==
    /\ Len(TopProducts) <= high_demand_n
    /\ (Cardinality(Touched) >= high_demand_n => Len(TopProducts) = high_demand_n)
    /\ (Cardinality(Touched) < high_demand_n => Len(TopProducts) = Cardinality(Touched))
    /\ \A k \in 1..Len(TopProducts) : TopProducts[k] \in Touched
    /\ \A k, l \in 1..Len(TopProducts) :
          k < l => /\ TopProducts[k] # TopProducts[l]
                   /\ OrderCount(TopProducts[k]) >= OrderCount(TopProducts[l])
    /\ \A k \in 1..Len(TopProducts) :
          \A q \in Touched \ {TopProducts[l] : l \in 1..Len(TopProducts)} :
              OrderCount(TopProducts[k]) >= OrderCount(q)

\* C7 (as claimed): at most 5 products, none with fewer orders than a product left
\* out, in descending order of order count, equal counts in the order in which the
\* products first occur in the input orders.
C7_TiesInFirstOccurrenceOrder ==
    ImpactReturned =>
        /\ TopFiveByCount
        /\ \A k, l \in 1..Len(TopProducts) :
              (k < l /\ OrderCount(TopProducts[k]) = OrderCount(TopProducts[l])) =>
                  OccursFirst(TopProducts[k], TopProducts[l])

\* C7 (amended): at most 5 products, none with fewer orders than a product left out,
\* in descending order of order count, equal counts in ascending order of product
\* identifier (the row order of the grouped demand table); of the products tied
\* at the cut, those with the smaller identifiers are kept.
C7_TiesInProductOrder ==
    ImpactReturned =>
        /\ TopFiveByCount
        /\ \A k, l \in 1..Len(TopProducts) :
              (k < l /\ OrderCount(TopProducts[k]) = OrderCount(TopProducts[l])) =>
                  CatalogPos(TopProducts[k]) < CatalogPos(TopProducts[l])
        /\ \A k \in 1..Len(TopProducts) :
              \A q \in Touched \ {TopProducts[l] : l \in 1..Len(TopProducts)} :
                  OrderCount(TopProducts[k]) = OrderCount(q) =>
                      CatalogPos(TopProducts[k]) < CatalogPos(q)

\* six products are ordered, one of them twice, the rest tied: the list leads with
\* the product ordered twice and leaves out one of the tied products
C7_Witness ==
    /\ call.op = "_analyze_inventory_impact"
    /\ Cardinality(Touched) = 6
    /\ Len(TopProducts) = high_demand_n
    /\ OrderCount(TopProducts[1]) = 2
    /\ OrderCount(TopProducts[2]) = 1
    /\ OccursFirst(TopProducts[3], TopProducts[2])
====
